---- MODULE Spec2Model ----
(***************************************************************************)
(* A model of the `aoc` command line tool (src/src/main.rs): the           *)
(* environment resolver (Environment::new, check_day, check_year), the     *)
(* response classifier (Answer::from_str), the two network operations      *)
(* (get_input, submit_answer) and the four commands of main.               *)
(*                                                                         *)
(* Rust strings are TLA+ strings; `contains`, `replace` and `parse` are    *)
(* computed character by character as the standard library computes them.  *)
(***************************************************************************)
EXTENDS Integers, Sequences, FiniteSets, TLC

VARIABLES
    current_dir,        \* file name of the working directory
    parent_dir,         \* file name of its parent
    day_format,         \* config.formats.day, defaulted
    year_format,        \* config.formats.year, defaulted
    pc,                 \* position of the running function
    environment,        \* outcome of Environment::new
    check_day_result,   \* outcome of Environment::check_day
    check_year_result,  \* outcome of Environment::check_year
    response_text,      \* body handed to Answer::from_str
    answer,             \* outcome of Answer::from_str
    action,             \* args.action, the command
    session,            \* env::var("session"): <<>> unset, <<v>> set
    requests,           \* the requests sent, in order
    responses,          \* what each request ended in, in order
    tries,              \* get_input's counter
    returned,           \* what get_input returned: <<>> nothing, <<text>>
    input_txt,          \* the file input.txt: <<>> not written, <<text>>
    entries,            \* names read_dir(".") lists
    created,            \* paths the day command created or wrote
    new_day_str,        \* the day command's directory name
    stdout,             \* messages printed
    failed_steps,       \* the steps of the command that failed
    exited,             \* the process has ended
    exit_code           \* its exit status

fnVars == <<current_dir, parent_dir, day_format, year_format, environment,
            check_day_result, check_year_result, response_text, answer>>

mainVars == <<action, session, requests, responses, tries, returned, input_txt,
              entries, created, new_day_str, stdout, failed_steps, exited, exit_code>>

vars == <<pc, fnVars, mainVars>>

(***************************************************************************)
(* Bounds of the model.                                                    *)
(***************************************************************************)
\* longest digit string enumerated as a directory name's suffix
MaxDigits == 2
\* most fragments concatenated into one response body
MaxFrags == 2

(***************************************************************************)
(* str: contains, replace(pat, ""), parse::<u8>() / parse::<u16>()         *)
(***************************************************************************)
Char(s, i) == SubSeq(s, i, i)

\* str::contains(pat): pat occurs at some byte offset of s
Contains(s, pat) ==
    \E i \in 0..(Len(s) - Len(pat)) : SubSeq(s, i + 1, i + Len(pat)) = pat

\* a strip that cuts one character too many after a leading match
ReplaceMutant(s, pat) ==
    IF pat # "" /\ Len(s) >= Len(pat) /\ SubSeq(s, 1, Len(pat)) = pat
    THEN SubSeq(s, Len(pat) + 2, Len(s))
    ELSE s

\* str::replace(pat, ""): every non-overlapping match, left to right, removed;
\* the result is not scanned again
RECURSIVE Replace(_, _)
Replace(s, pat) ==
    IF pat = "" \/ Len(s) < Len(pat) THEN s
    ELSE IF SubSeq(s, 1, Len(pat)) = pat
         THEN Replace(SubSeq(s, Len(pat) + 1, Len(s)), pat)
         ELSE Char(s, 1) \o Replace(SubSeq(s, 2, Len(s)), pat)

Digits == {"0", "1", "2", "3", "4", "5", "6", "7", "8", "9"}

DigitValue(c) ==
    CASE c = "0" -> 0 [] c = "1" -> 1 [] c = "2" -> 2 [] c = "3" -> 3
      [] c = "4" -> 4 [] c = "5" -> 5 [] c = "6" -> 6 [] c = "7" -> 7
      [] c = "8" -> 8 [] c = "9" -> 9

RECURSIVE DigitsValue(_)
DigitsValue(s) ==
    IF s = "" THEN 0
    ELSE 10 * DigitsValue(SubSeq(s, 1, Len(s) - 1)) + DigitValue(Char(s, Len(s)))

AllDigits(s) == \A i \in 1..Len(s) : Char(s, i) \in Digits

\* the largest values of u8 and u16
U8Max == 255
U16Max == 65535

\* <unsigned>::from_str: an optional "+", then one digit at least, nothing
\* else, and a value the type holds; <<v>> for Ok(v), <<>> for Err
Parse(s, max) ==
    LET body == IF s # "" /\ Char(s, 1) = "+" THEN SubSeq(s, 2, Len(s)) ELSE s
    IN  IF body # "" /\ AllDigits(body) /\ DigitsValue(body) <= max
        THEN <<DigitsValue(body)>>
        ELSE <<>>

(***************************************************************************)
(* Environment::new                                                        *)
(***************************************************************************)
\* a resolver that looks at the current name only
EnvBadParentMutant(cur, par, df, yf) ==
    LET year == Parse(Replace(cur, yf), U16Max)
    IN  IF ~Contains(cur, yf)
        THEN [result |-> "InvalidYear", year |-> <<>>, day |-> <<>>]
        ELSE IF year = <<>>
             THEN [result |-> "panic", year |-> <<>>, day |-> <<>>]
             ELSE [result |-> "Ok", year |-> year, day |-> <<>>]

\* the `if` of Environment::new, on the two directory names it reads;
\* result "panic" is an unwrap() of a parse error
EnvironmentNew(cur, par, df, yf) ==
    IF Contains(par, yf)
    THEN LET year == Parse(Replace(par, yf), U16Max)
             day  == Parse(Replace(cur, df), U8Max)
         IN  IF year = <<>> \/ day = <<>>
             THEN [result |-> "panic", year |-> <<>>, day |-> <<>>]
             ELSE [result |-> "Ok", year |-> year, day |-> day]
    ELSE IF ~Contains(cur, yf)
         THEN [result |-> "InvalidYear", year |-> <<>>, day |-> <<>>]
         ELSE LET year == Parse(Replace(cur, yf), U16Max)
              IN  IF year = <<>>
                  THEN [result |-> "panic", year |-> <<>>, day |-> <<>>]
                  ELSE [result |-> "Ok", year |-> year, day |-> <<>>]

NoEnvironment == [result |-> "none", year |-> <<>>, day |-> <<>>]

\* no command is running: the state of main before it starts
InitMainVars ==
    /\ session = <<>>
    /\ requests = <<>>
    /\ responses = <<>>
    /\ tries = 0
    /\ returned = <<>>
    /\ input_txt = <<>>
    /\ entries = {}
    /\ created = {}
    /\ new_day_str = ""
    /\ stdout = {}
    /\ failed_steps = {}
    /\ exited = FALSE
    /\ exit_code = 0

(***************************************************************************)
(* Environment::check_day, Environment::check_year                         *)
(***************************************************************************)
check_day(cur, df) == IF ~Contains(cur, df) THEN "Err" ELSE "Ok"

\* a check_year that looks at the parent name only
CheckYearMutant(cur, par, yf) == IF ~Contains(par, yf) THEN "Err" ELSE "Ok"

check_year(cur, par, yf) ==
    IF ~Contains(par, yf) /\ ~Contains(cur, yf) THEN "Err" ELSE "Ok"

(***************************************************************************)
(* impl FromStr for Answer                                                 *)
(***************************************************************************)
\* a classifier that looks for the bare words "right answer" first
FromStrMutant(s) ==
    IF Contains(s, "right answer") THEN "Correct"
    ELSE IF Contains(s, "not the right answer") THEN "Incorrect"
    ELSE IF Contains(s, "don't seem to be solving") THEN "AlreadySubmitted"
    ELSE IF Contains(s, "answer too recently") THEN "RateLimited"
    ELSE "Err"

FromStr(s) ==
    IF Contains(s, "That's the right answer!") THEN "Correct"
    ELSE IF Contains(s, "That's not the right answer") THEN "Incorrect"
    ELSE IF Contains(s, "You don't seem to be solving") THEN "AlreadySubmitted"
    ELSE IF Contains(s, "You gave an answer too recently") THEN "RateLimited"
    ELSE "Err"

(***************************************************************************)
(* The directory names and formats the resolver is run on.                 *)
(***************************************************************************)
DayFormats == {"day-", "0"}
YearFormats == {"advent-of-code-", "aoc"}

RECURSIVE DigitStrings(_)
DigitStrings(n) ==
    IF n = 0 THEN {""}
    ELSE DigitStrings(n - 1)
         \cup {s \o d : s \in DigitStrings(n - 1), d \in {"0", "7"}}

Suffixes ==
    DigitStrings(MaxDigits)
    \cup {"10", "25", "255", "256", "2022", "65535", "65536", "+7", "x", "-1"}

OtherNames == {"random", "07", "not-day-01"}

Names(df, yf) ==
    {df \o s : s \in Suffixes} \cup {yf \o s : s \in Suffixes} \cup OtherNames

(***************************************************************************)
(* SpecEnv: the resolver and the validators on every pair of names.        *)
(***************************************************************************)
InitEnv ==
    /\ day_format \in DayFormats
    /\ year_format \in YearFormats
    /\ current_dir \in Names(day_format, year_format)
    /\ parent_dir \in Names(day_format, year_format)
    /\ pc = "new"
    /\ environment = NoEnvironment
    /\ check_day_result = "none"
    /\ check_year_result = "none"
    /\ response_text = ""
    /\ answer = "none"
    /\ action = "none"
    /\ InitMainVars

Resolve ==
    /\ pc = "new"
    /\ environment' = EnvironmentNew(current_dir, parent_dir, day_format, year_format)
    /\ pc' = "check_day"
    /\ UNCHANGED <<current_dir, parent_dir, day_format, year_format,
                   check_day_result, check_year_result, response_text, answer>>
    /\ UNCHANGED mainVars

RequireDay ==
    /\ pc = "check_day"
    /\ check_day_result' = check_day(current_dir, day_format)
    /\ pc' = "check_year"
    /\ UNCHANGED <<current_dir, parent_dir, day_format, year_format,
                   environment, check_year_result, response_text, answer>>
    /\ UNCHANGED mainVars

RequireYear ==
    /\ pc = "check_year"
    /\ check_year_result' = check_year(current_dir, parent_dir, year_format)
    /\ pc' = "checked"
    /\ UNCHANGED <<current_dir, parent_dir, day_format, year_format,
                   environment, check_day_result, response_text, answer>>
    /\ UNCHANGED mainVars

NextEnv == Resolve \/ RequireDay \/ RequireYear

SpecEnv == InitEnv /\ [][NextEnv]_vars

(***************************************************************************)
(* Properties of the resolver and the validators (SpecEnv).                *)
(***************************************************************************)
\* p occurs in s: s = a \o p \o b for some a, b
Occurs(s, p) ==
    \E i \in 0..Len(s), j \in 0..Len(s) : i <= j /\ SubSeq(s, i + 1, j) = p

\* a non-empty string of decimal digits
IsNatural(s) == s # "" /\ AllDigits(s)

HasNoDigit(s) == \A i \in 1..Len(s) : Char(s, i) \notin Digits

Resolved == environment.result # "none"

\* C3 as stated: for every pair of names the resolver is a three-way split
\* with a result in each of the first two cases: parent matches year_fmt ->
\* Ok with year from the parent and a day from the current name; else
\* current matches -> Ok with year from the current name and no day; else
\* InvalidYear.
C3_Original ==
    Resolved =>
        IF Occurs(parent_dir, year_format)
        THEN /\ environment.result = "Ok"
             /\ environment.year = Parse(Replace(parent_dir, year_format), U16Max)
             /\ environment.day # <<>>
             /\ environment.day = Parse(Replace(current_dir, day_format), U8Max)
        ELSE IF Occurs(current_dir, year_format)
             THEN /\ environment.result = "Ok"
                  /\ environment.year = Parse(Replace(current_dir, year_format), U16Max)
                  /\ environment.day = <<>>
             ELSE environment.result = "InvalidYear"

\* C3 amended: the resolver is the three-way split whenever the extractions
\* it makes succeed, and panics (no Environment, no InvalidYear) when one of
\* them does not parse (year as u16, day as u8). InvalidYear is returned
\* exactly when neither name contains year_fmt; "day-07" under
\* "advent-of-code-2022" with the default formats gives year 2022, day 7.
C3_ResolveCaseSplit ==
    Resolved =>
        LET pyear == Parse(Replace(parent_dir, year_format), U16Max)
            cyear == Parse(Replace(current_dir, year_format), U16Max)
            cday  == Parse(Replace(current_dir, day_format), U8Max)
        IN  /\ Occurs(parent_dir, year_format) =>
                IF pyear # <<>> /\ cday # <<>>
                THEN /\ environment.result = "Ok"
                     /\ environment.year = pyear
                     /\ environment.day = cday
                ELSE environment.result = "panic"
            /\ ~Occurs(parent_dir, year_format) /\ Occurs(current_dir, year_format) =>
                IF cyear # <<>>
                THEN /\ environment.result = "Ok"
                     /\ environment.year = cyear
                     /\ environment.day = <<>>
                ELSE environment.result = "panic"
            /\ environment.result = "InvalidYear"
                <=> ~Occurs(parent_dir, year_format) /\ ~Occurs(current_dir, year_format)
            /\ ( /\ current_dir = "day-07" /\ parent_dir = "advent-of-code-2022"
                 /\ day_format = "day-" /\ year_format = "advent-of-code-" )
                => environment = [result |-> "Ok", year |-> <<2022>>, day |-> <<7>>]

\* the resolver has run on "day-07" under "advent-of-code-2022"
C3_Witness ==
    /\ current_dir = "day-07" /\ parent_dir = "advent-of-code-2022"
    /\ environment = [result |-> "Ok", year |-> <<2022>>, day |-> <<7>>]

\* C7 as stated: for all (prefix, suffix) with suffix a non-negative integer,
\* the identifier extracted from prefix \o suffix is the value of suffix, for
\* the year (from the parent or, at a year root, the current name) and for
\* the day (from the current name).
C7_Original ==
    Resolved =>
        /\ \A t \in Suffixes :
             (parent_dir = year_format \o t /\ IsNatural(t)) =>
                \A s \in Suffixes :
                    (current_dir = day_format \o s /\ IsNatural(s)) =>
                        /\ environment.year = <<DigitsValue(t)>>
                        /\ environment.day = <<DigitsValue(s)>>
        /\ \A t \in Suffixes :
             ( /\ current_dir = year_format \o t
               /\ IsNatural(t)
               /\ ~Occurs(parent_dir, year_format) )
             => environment.year = <<DigitsValue(t)>>

\* C7 amended: the same, for prefixes that contain no digit and suffixes whose
\* value the field holds (at most 255 for the day, a u8; at most 65535 for
\* the year, a u16).
C7_ExtractRoundTrip ==
    (Resolved /\ HasNoDigit(year_format)) =>
        /\ \A t \in Suffixes :
             ( /\ parent_dir = year_format \o t
               /\ IsNatural(t)
               /\ DigitsValue(t) <= U16Max
               /\ HasNoDigit(day_format) ) =>
                \A s \in Suffixes :
                    ( /\ current_dir = day_format \o s
                      /\ IsNatural(s)
                      /\ DigitsValue(s) <= U8Max ) =>
                        /\ environment.result = "Ok"
                        /\ environment.year = <<DigitsValue(t)>>
                        /\ environment.day = <<DigitsValue(s)>>
        /\ \A t \in Suffixes :
             ( /\ current_dir = year_format \o t
               /\ IsNatural(t)
               /\ DigitsValue(t) <= U16Max
               /\ ~Occurs(parent_dir, year_format) )
             => /\ environment.result = "Ok"
                /\ environment.year = <<DigitsValue(t)>>

\* the largest day and year the fields hold have been extracted
C7_Witness ==
    /\ current_dir = day_format \o "255"
    /\ parent_dir = year_format \o "65535"
    /\ environment = [result |-> "Ok", year |-> <<65535>>, day |-> <<255>>]

\* C8 as stated: when the parent name matches year_fmt and the current name
\* does not contain day_fmt, the day extraction fails: the resolver yields no
\* Environment.
C8_Original ==
    ( /\ Resolved
      /\ Occurs(parent_dir, year_format)
      /\ ~Occurs(current_dir, day_format) )
    => environment.result # "Ok"

\* C10: check_day is Ok exactly when the current name contains day_fmt, and
\* check_year is Ok exactly when the current or the parent name contains
\* year_fmt; each is an error otherwise.
C10_ValidatorsAreContainment ==
    /\ check_day_result # "none" =>
          /\ check_day_result \in {"Ok", "Err"}
          /\ check_day_result = "Ok" <=> Occurs(current_dir, day_format)
    /\ check_year_result # "none" =>
          /\ check_year_result \in {"Ok", "Err"}
          /\ check_year_result = "Ok"
                <=> Occurs(current_dir, year_format) \/ Occurs(parent_dir, year_format)

\* at a year root check_year passes on the current name alone and check_day
\* fails
C10_Witness ==
    /\ check_day_result = "Err"
    /\ check_year_result = "Ok"
    /\ ~Occurs(parent_dir, year_format)

(***************************************************************************)
(* SpecClassify: Answer::from_str on response bodies put together from     *)
(* the server's phrases, parts of them and unrelated text.                 *)
(***************************************************************************)
Fragments ==
    { "That's the right answer!", "That's not the right answer",
      "You don't seem to be solving", "You gave an answer too recently",
      "That's ", "the right answer", "!", " unrelated text " }

RECURSIVE Bodies(_)
Bodies(n) ==
    IF n = 0 THEN {""}
    ELSE Bodies(n - 1) \cup {b \o f : b \in Bodies(n - 1), f \in Fragments}

InitClassify ==
    /\ response_text \in Bodies(MaxFrags)
    /\ answer = "none"
    /\ pc = "classify"
    /\ current_dir = "" /\ parent_dir = ""
    /\ day_format = "day-" /\ year_format = "advent-of-code-"
    /\ environment = NoEnvironment
    /\ check_day_result = "none"
    /\ check_year_result = "none"
    /\ action = "none"
    /\ InitMainVars

Classify ==
    /\ pc = "classify"
    /\ answer' = FromStr(response_text)
    /\ pc' = "classified"
    /\ UNCHANGED <<current_dir, parent_dir, day_format, year_format, environment,
                   check_day_result, check_year_result, response_text>>
    /\ UNCHANGED mainVars

NextClassify == Classify

SpecClassify == InitClassify /\ [][NextClassify]_vars

(***************************************************************************)
(* Properties of the classifier (SpecClassify).                            *)
(***************************************************************************)
\* the outcome of the first of four phrases that the body contains
FirstPhrase(s, correct, incorrect, already, limited) ==
    IF Occurs(s, correct) THEN "Correct"
    ELSE IF Occurs(s, incorrect) THEN "Incorrect"
    ELSE IF Occurs(s, already) THEN "AlreadySubmitted"
    ELSE IF Occurs(s, limited) THEN "RateLimited"
    ELSE "Err"

\* C2 as stated: the classifier returns the outcome of the first of the
\* four phrases (Correct, Incorrect, AlreadySubmitted, RateLimited, in that
\* order, spelled as the classifier spells them) that the body contains, an
\* error exactly when it contains none, and every body containing "That's not
\* the right answer" is classified Incorrect, never Correct.
C2_Original ==
    answer # "none" =>
        /\ answer = FirstPhrase(response_text,
                                "That's the right answer!", "That's not the right answer",
                                "You don't seem to be solving",
                                "You gave an answer too recently")
        /\ Occurs(response_text, "That's not the right answer") => answer = "Incorrect"

\* C2 amended: the classifier returns the outcome of the first of "That's the
\* right answer!", "That's not the right answer", "You don't seem to be
\* solving", "You gave an answer too recently" that the body contains, and an
\* error exactly when it contains none; a body containing "That's not the
\* right answer" is Incorrect unless it also contains "That's the right
\* answer!", and then it is Correct.
C2_ClassifyFirstMatch ==
    answer # "none" =>
        /\ answer = FirstPhrase(response_text,
                                "That's the right answer!", "That's not the right answer",
                                "You don't seem to be solving",
                                "You gave an answer too recently")
        /\ answer = "Err" <=>
              /\ ~Occurs(response_text, "That's the right answer!")
              /\ ~Occurs(response_text, "That's not the right answer")
              /\ ~Occurs(response_text, "You don't seem to be solving")
              /\ ~Occurs(response_text, "You gave an answer too recently")
        /\ Occurs(response_text, "That's not the right answer") =>
              IF Occurs(response_text, "That's the right answer!")
              THEN answer = "Correct"
              ELSE answer = "Incorrect"

\* a body with "That's not the right answer" in it has been classified
\* Incorrect
C2_Witness ==
    /\ answer = "Incorrect"
    /\ Occurs(response_text, "That's not the right answer")
    /\ Occurs(response_text, "right answer")

(***************************************************************************)
(* reqwest's request builder, as get_input and submit_answer use it.       *)
(***************************************************************************)
NewRequest(method, url) ==
    [method |-> method, url |-> url, headers |-> <<>>, body |-> <<>>]

\* RequestBuilder::header appends the header
Header(req, name, value) ==
    [req EXCEPT !.headers = Append(@, <<name, value>>)]

\* serde_urlencoded of a list of pairs: k=v joined by "&"
RECURSIVE UrlEncoded(_)
UrlEncoded(pairs) ==
    IF pairs = <<>> THEN ""
    ELSE pairs[1][1] \o "=" \o pairs[1][2]
         \o (IF Len(pairs) > 1 THEN "&" ELSE "") \o UrlEncoded(Tail(pairs))

\* RequestBuilder::form sets the Content-Type header and SETS the body to the
\* encoding of the given pairs: a body set before is replaced
Form(req, pairs) ==
    LET others == SelectSeq(req.headers, LAMBDA h : h[1] # "Content-Type")
    IN  [req EXCEPT
            !.headers = Append(others,
                               <<"Content-Type", "application/x-www-form-urlencoded">>),
            !.body = <<UrlEncoded(pairs)>>]

InputUrl(year, day) ==
    "https://adventofcode.com/" \o ToString(year) \o "/day/" \o ToString(day) \o "/input"

AnswerUrl(year, day) ==
    "https://adventofcode.com/" \o ToString(year) \o "/day/" \o ToString(day) \o "/answer"

\* the request get_input sends first
FirstInputRequest(url, session_cookie) ==
    Header(Header(NewRequest("GET", url), "Cookie", session_cookie),
           "User-Agent", "AceofSpades5757")

\* the request get_input sends in its retry loop
RetryInputRequest(url, session_cookie) ==
    Header(Header(NewRequest("GET", url), "Cookie", "session=" \o session_cookie),
           "User-Agent", "AceofSpades5757")

\* the request submit_answer sends
AnswerRequest(url, session_cookie, part, text) ==
    Form(Form(Header(Header(NewRequest("POST", url),
                            "Cookie", "session=" \o session_cookie),
                     "User-Agent", "AceofSpades5757"),
              << <<"level", ToString(part)>> >>),
         << <<"answer", text>> >>)

\* the retry loop's bound
max_tries == 5

\* the loop condition of get_input
ShouldRetry(status, n) == status = 404 /\ n < max_tries

\* a format that does not pad: {} instead of {:02}
Pad2Mutant(n) == ToString(n)

\* {:02} of a u8
Pad2(n) == IF n < 10 THEN "0" \o ToString(n) ELSE ToString(n)

(***************************************************************************)
(* The world main runs in: what the server answers, what the environment   *)
(* and the file system hold.                                               *)
(***************************************************************************)
TransportError == [kind |-> "error", status |-> 0, text |-> ""]

Status(code, text) == [kind |-> "status", status |-> code, text |-> text]

InputOutcomes ==
    { TransportError,
      Status(200, "1000\n2000\n"),
      Status(404, "Please don't repeatedly request this endpoint before it unlocks!"),
      Status(400, "Puzzle inputs differ by user.  Please log in to get your puzzle input."),
      Status(500, "Internal Server Error") }

AnswerOutcomes ==
    { TransportError,
      Status(200, "<p>That's the right answer!  You are one gold star closer.</p>"),
      Status(200, "<p>That's not the right answer; your answer is too low.</p>"),
      Status(200, "<p>You don't seem to be solving the right level.</p>"),
      Status(200, "<p>You gave an answer too recently.</p>"),
      Status(500, "Internal Server Error") }

Sessions == {<<>>, <<"53cr3t">>}

\* trimmed standard output of `cargo run --bin part_N`; <<>> when cargo
\* cannot be run
CargoOutputs == {<<>>, <<"42">>, <<"">>}

EntrySets ==
    { {}, {"Cargo.toml"}, {"day-01", "Cargo.toml"}, {"day-01", "day-09", "notes"},
      {"day-09", "day-xx"}, {"day-25"}, {"day-255"} }

\* the file system operations of the day command, in order
ScaffoldSteps ==
    { "create day directory", "update Cargo.toml", "create Cargo.toml",
      "create src", "create src/bin", "create part_1.rs" }

MainCurrentDirs == {"day-07", "advent-of-code-2022", "07", "random"}
MainParentDirs == {"advent-of-code-2022", "random"}
Actions == {"Input", "Submit", "Day", "Part"}

(***************************************************************************)
(* main                                                                    *)
(***************************************************************************)
Init ==
    /\ current_dir \in MainCurrentDirs
    /\ parent_dir \in MainParentDirs
    /\ day_format = "day-"
    /\ year_format = "advent-of-code-"
    /\ action \in Actions
    /\ pc = "main"
    /\ environment = NoEnvironment
    /\ check_day_result = "none"
    /\ check_year_result = "none"
    /\ response_text = ""
    /\ answer = "none"
    /\ InitMainVars

\* std::process::exit(code), or a panic (code 101), or main returning (0)
Terminate(code, messages, failures) ==
    /\ exited' = TRUE
    /\ exit_code' = code
    /\ pc' = "exited"
    /\ stdout' = stdout \cup messages
    /\ failed_steps' = failed_steps \cup failures

Continue(next) ==
    /\ pc' = next
    /\ UNCHANGED <<stdout, failed_steps, exited, exit_code>>

\* main, "// Environment"
MainEnvironment ==
    /\ pc = "main"
    /\ LET env == EnvironmentNew(current_dir, parent_dir, day_format, year_format)
       IN  /\ environment' = env
           /\ CASE env.result = "Ok" -> Continue("command")
                [] env.result = "InvalidYear" ->
                     Terminate(1, {"Invalid environment"}, {"environment"})
                [] env.result = "panic" -> Terminate(101, {}, {"environment"})
    /\ UNCHANGED <<current_dir, parent_dir, day_format, year_format,
                   check_day_result, check_year_result, response_text, answer>>
    /\ UNCHANGED <<action, session, requests, responses, tries, returned,
                   input_txt, entries, created, new_day_str>>

\* helpers::check_day_and_year_dirs, called first by input, submit and part
CheckDayAndYearDirs ==
    /\ pc = "command"
    /\ action \in {"Input", "Submit", "Part"}
    /\ LET d == check_day(current_dir, day_format)
           y == check_year(current_dir, parent_dir, year_format)
       IN  /\ check_day_result' = d
           /\ check_year_result' = IF d = "Err" THEN check_year_result ELSE y
           /\ IF d = "Err" \/ y = "Err"
              THEN Terminate(1, {"Error"}, {"validation"})
              ELSE Continue(CASE action = "Input" -> "get_input"
                              [] action = "Submit" -> "submit"
                              [] action = "Part" -> "part")
    /\ UNCHANGED <<current_dir, parent_dir, day_format, year_format,
                   environment, response_text, answer>>
    /\ UNCHANGED <<action, session, requests, responses, tries, returned,
                   input_txt, entries, created, new_day_str>>

\* helpers::check_year_dir, called first by day
CheckYearDir ==
    /\ pc = "command"
    /\ action = "Day"
    /\ LET y == check_year(current_dir, parent_dir, year_format)
       IN  /\ check_year_result' = y
           /\ IF y = "Err"
              THEN Terminate(1, {"Error"}, {"validation"})
              ELSE Continue("day")
    /\ UNCHANGED <<current_dir, parent_dir, day_format, year_format,
                   environment, check_day_result, response_text, answer>>
    /\ UNCHANGED <<action, session, requests, responses, tries, returned,
                   input_txt, entries, created, new_day_str>>

Last(seq) == seq[Len(seq)]

\* main, Action::Input: `environment.day.unwrap()`, then get_input up to and
\* with its first request
GetInputSend ==
    /\ pc = "get_input"
    /\ IF environment.day = <<>>
       THEN /\ Terminate(101, {}, {"environment"})
            /\ UNCHANGED <<session, requests, responses, tries>>
       ELSE \E s \in Sessions :
            /\ session' = s
            /\ IF s = <<>>
               THEN /\ Terminate(1, {"session key not set in .env file"}, {"credential"})
                    /\ UNCHANGED <<requests, responses, tries>>
               ELSE \E r \in InputOutcomes :
                    /\ requests' = Append(requests,
                          FirstInputRequest(InputUrl(environment.year[1],
                                                     environment.day[1]), s[1]))
                    /\ responses' = Append(responses, r)
                    /\ IF r.kind = "error"
                       THEN Terminate(101, {}, {"network"}) /\ UNCHANGED tries
                       ELSE Continue("get_input_loop") /\ tries' = 0
    /\ UNCHANGED fnVars
    /\ UNCHANGED <<action, returned, input_txt, entries, created, new_day_str>>

\* get_input, one turn of `while response.status() == 404 && tries < max_tries`
GetInputRetry ==
    /\ pc = "get_input_loop"
    /\ ShouldRetry(Last(responses).status, tries)
    /\ \E r \in InputOutcomes :
        /\ requests' = Append(requests,
              RetryInputRequest(InputUrl(environment.year[1], environment.day[1]),
                                session[1]))
        /\ responses' = Append(responses, r)
        /\ IF r.kind = "error"
           THEN /\ Terminate(101, {"Puzzle has not yet opened, retrying..."}, {"network"})
                /\ UNCHANGED tries
           ELSE /\ tries' = tries + 1
                /\ pc' = "get_input_loop"
                /\ stdout' = stdout \cup {"Puzzle has not yet opened, retrying..."}
                /\ UNCHANGED <<failed_steps, exited, exit_code>>
    /\ UNCHANGED fnVars
    /\ UNCHANGED <<action, session, returned, input_txt, entries, created, new_day_str>>

\* get_input, after the loop: exit on 404, the body of the response otherwise
GetInputReturn ==
    /\ pc = "get_input_loop"
    /\ ~ShouldRetry(Last(responses).status, tries)
    /\ IF Last(responses).status = 404
       THEN /\ Terminate(1, {"Puzzle has not yet opened, please try again later."},
                         {"network"})
            /\ UNCHANGED returned
       ELSE /\ returned' = <<Last(responses).text>>
            /\ Continue("write_input")
    /\ UNCHANGED fnVars
    /\ UNCHANGED <<action, session, requests, responses, tries, input_txt,
                   entries, created, new_day_str>>

\* main, Action::Input: fs::write("input.txt", input), the message, the end
\* of main
WriteInput ==
    /\ pc = "write_input"
    /\ \E ok \in BOOLEAN :
        IF ok
        THEN /\ input_txt' = returned
             /\ Terminate(0, {"Success"}, {})
        ELSE /\ UNCHANGED input_txt
             /\ Terminate(0, {"Failed to write input file"}, {"write input.txt"})
    /\ UNCHANGED fnVars
    /\ UNCHANGED <<action, session, requests, responses, tries, returned,
                   entries, created, new_day_str>>

\* main, Action::Submit up to the response of submit_answer's request
SubmitSend ==
    /\ pc = "submit"
    /\ IF environment.day = <<>>
       THEN /\ Terminate(101, {}, {"environment"})
            /\ UNCHANGED <<session, requests, responses, response_text>>
       ELSE \E part_2_exists \in BOOLEAN, output \in CargoOutputs :
            LET part_number == IF part_2_exists THEN 2 ELSE 1
            IN  IF output = <<>>
                THEN /\ Terminate(101, {}, {"cargo run"})
                     /\ UNCHANGED <<session, requests, responses, response_text>>
                ELSE \E s \in Sessions :
                     /\ session' = s
                     /\ IF s = <<>>
                        THEN /\ Terminate(1, {"session key not set in .env file"},
                                          {"credential"})
                             /\ UNCHANGED <<requests, responses, response_text>>
                        ELSE \E r \in AnswerOutcomes :
                             /\ requests' = Append(requests,
                                   AnswerRequest(AnswerUrl(environment.year[1],
                                                           environment.day[1]),
                                                 s[1], part_number, output[1]))
                             /\ responses' = Append(responses, r)
                             /\ IF r.kind = "error"
                                THEN /\ Terminate(101, {}, {"network"})
                                     /\ UNCHANGED response_text
                                ELSE /\ response_text' = r.text
                                     /\ Continue("classify_answer")
    /\ UNCHANGED <<current_dir, parent_dir, day_format, year_format, environment,
                   check_day_result, check_year_result, answer>>
    /\ UNCHANGED <<action, tries, returned, input_txt, entries, created, new_day_str>>

\* submit_answer's `text.parse().unwrap()` and main's report of the outcome
SubmitClassify ==
    /\ pc = "classify_answer"
    /\ LET result == FromStr(response_text)
       IN  /\ answer' = result
           /\ IF result = "Err"
              THEN Terminate(101, {}, {"classification"})
              ELSE Terminate(0, {result}, {})
    /\ UNCHANGED <<current_dir, parent_dir, day_format, year_format, environment,
                   check_day_result, check_year_result, response_text>>
    /\ UNCHANGED <<action, session, requests, responses, tries, returned,
                   input_txt, entries, created, new_day_str>>

\* the day of an entry of the year directory: parse().unwrap_or(0)
EntryDay(name, df) ==
    LET parsed == Parse(Replace(name, df), U8Max)
    IN  IF parsed = <<>> THEN 0 ELSE parsed[1]

\* the loop over read_dir("."): the largest day among the entries that
\* contain the day format, 0 when there is none
HighestDay(es, df) ==
    LET days == {EntryDay(e, df) : e \in {x \in es : Contains(x, df)}} \cup {0}
    IN  CHOOSE d \in days : \A other \in days : other <= d

\* the path each step of the day command creates or writes
ScaffoldPath(step, dir) ==
    CASE step = "create day directory" -> dir
      [] step = "update Cargo.toml" -> "Cargo.toml"
      [] step = "create Cargo.toml" -> dir \o "/Cargo.toml"
      [] step = "create src" -> dir \o "/src"
      [] step = "create src/bin" -> dir \o "/src/bin"
      [] step = "create part_1.rs" -> dir \o "/src/bin/part_1.rs"

\* main, Action::Day after its check: the new name, then six file system
\* operations, each reported and none ending the command; `highest_day + 1`
\* overflows a u8 at 255 (a panic in a debug build, 0 in a release build) and
\* a Cargo.toml that is no workspace manifest panics
DayScaffold ==
    /\ pc = "day"
    /\ \E es \in EntrySets, manifest \in {"absent", "valid", "invalid"},
          failed \in SUBSET ScaffoldSteps, build \in {"debug", "release"} :
        LET highest_day == HighestDay(es, day_format)
            new_day == (highest_day + 1) % (U8Max + 1)
            name == day_format \o Pad2(new_day)
            done(steps) == {ScaffoldPath(s, name) : s \in steps \ failed}
        IN  /\ entries' = es
            /\ IF highest_day = U8Max /\ build = "debug"
               THEN /\ Terminate(101, {}, {"new day number"})
                    /\ UNCHANGED <<new_day_str, created>>
               ELSE /\ new_day_str' = name
                    /\ IF manifest = "invalid"
                       THEN /\ created' = done({"create day directory"})
                            /\ Terminate(101, {},
                                  (failed \cap {"create day directory"})
                                  \cup {"update Cargo.toml"})
                       ELSE /\ created' = done(ScaffoldSteps)
                            /\ Terminate(0,
                                  {IF s \in failed THEN "Failed: " \o s
                                                   ELSE "Success: " \o s
                                      : s \in ScaffoldSteps},
                                  failed)
    /\ UNCHANGED fnVars
    /\ UNCHANGED <<action, session, requests, responses, tries, returned, input_txt>>

\* main, Action::Part after its check
PartCopy ==
    /\ pc = "part"
    /\ \E part_2_exists \in BOOLEAN, cp \in {"not run", "success", "failure"} :
        IF part_2_exists
        THEN /\ Terminate(1, {"./src/bin/part_2.rs already exists."}, {"part 2 exists"})
             /\ UNCHANGED created
        ELSE CASE cp = "not run" ->
                    /\ Terminate(101, {}, {"copy part 1"})
                    /\ UNCHANGED created
               [] cp = "success" ->
                    /\ created' = created \cup {"src/bin/part_2.rs"}
                    /\ Terminate(0, {"Success"}, {})
               [] cp = "failure" ->
                    /\ UNCHANGED created
                    /\ Terminate(0, {"Failed to copy part 1 to part 2"}, {"copy part 1"})
    /\ UNCHANGED fnVars
    /\ UNCHANGED <<action, session, requests, responses, tries, returned,
                   input_txt, entries, new_day_str>>

Next ==
    \/ MainEnvironment
    \/ CheckDayAndYearDirs
    \/ CheckYearDir
    \/ GetInputSend
    \/ GetInputRetry
    \/ GetInputReturn
    \/ WriteInput
    \/ SubmitSend
    \/ SubmitClassify
    \/ DayScaffold
    \/ PartCopy

Spec == Init /\ [][Next]_vars

(***************************************************************************)
(* Properties of the commands (Spec).                                      *)
(***************************************************************************)
\* a response that is neither a success nor 404 ("not found")
IsOtherFailure(r) == r.kind = "error" \/ r.status \notin {200, 404}

\* C1: the input command sends at most 5 requests in total; when every
\* response is 404 it sends exactly 5 (1 initial + 4 retries) and then ends
\* with a non-zero status, no body returned and no input.txt written; when
\* the first response is 200 it sends exactly 1 request.
C1_Original ==
    action = "Input" =>
        /\ Len(requests) <= 5
        /\ ( /\ exited
             /\ responses # <<>>
             /\ \A i \in 1..Len(responses) :
                    responses[i].kind = "status" /\ responses[i].status = 404 )
           => /\ Len(requests) = 5
              /\ exit_code # 0
              /\ returned = <<>>
              /\ input_txt = <<>>
        /\ (responses # <<>> /\ responses[1].status = 200) => Len(requests) = 1

\* C4: once a request of the input command has ended in a transport failure
\* or in a status that is neither a success nor 404, no further request is
\* sent, no body is returned, input.txt is not written, success is not
\* reported and the exit status is not 0.
C4_Original ==
    action = "Input" =>
        \A i \in 1..Len(responses) :
            IsOtherFailure(responses[i]) =>
                /\ Len(requests) = i
                /\ returned = <<>>
                /\ input_txt = <<>>
                /\ "Success" \notin stdout
                /\ exited => exit_code # 0

\* C5: the body of every POST request sent holds both form fields, level=1 or
\* level=2 and answer=<text>.
C5_Original ==
    \A i \in 1..Len(requests) :
        requests[i].method = "POST" =>
            /\ requests[i].body # <<>>
            /\ Occurs(requests[i].body[1], "level=1")
                  \/ Occurs(requests[i].body[1], "level=2")
            /\ Occurs(requests[i].body[1], "answer=")

\* C6: a command in which a step failed ends with a non-zero exit status;
\* the exit status is 0 only when every step succeeded.
C6_Original ==
    exited => (exit_code = 0 => failed_steps = {})

\* C9: every request of the input command, the first and each retry, is the
\* same request: GET /{year}/day/{day}/input with the headers
\* Cookie: session={credential} and User-Agent: AceofSpades5757.
C9_Original ==
    action = "Input" =>
        \A i \in 1..Len(requests) :
            requests[i] =
                [ method  |-> "GET",
                  url     |-> "https://adventofcode.com/"
                                \o ToString(environment.year[1]) \o "/day/"
                                \o ToString(environment.day[1]) \o "/input",
                  headers |-> << <<"Cookie", "session=" \o session[1]>>,
                                 <<"User-Agent", "AceofSpades5757">> >>,
                  body    |-> <<>> ]

\* the day command got past its check and ran to its end
DayRan == action = "Day" /\ exited /\ check_year_result = "Ok"

\* the day number of an existing entry: the value its name leaves once the
\* day prefix is taken out; <<>> when that is no number a u8 holds
DayNumber(name) == Parse(Replace(name, day_format), U8Max)

\* h is the largest day number among the entries whose name contains the day
\* prefix, 0 when there is none
IsHighest(h) ==
    /\ h = 0 \/ \E e \in entries : Occurs(e, day_format) /\ DayNumber(e) = <<h>>
    /\ \A e \in entries :
          (Occurs(e, day_format) /\ DayNumber(e) # <<>>) => DayNumber(e)[1] <= h

\* name is the day prefix followed by n in decimal, zero-padded to two digits
IsDayName(name, n) ==
    LET suffix == SubSeq(name, Len(day_format) + 1, Len(name))
    IN  /\ Len(name) >= Len(day_format) + 2
        /\ SubSeq(name, 1, Len(day_format)) = day_format
        /\ AllDigits(suffix)
        /\ DigitsValue(suffix) = n
        /\ Len(suffix) > 2 => Char(suffix, 1) # "0"

\* C11 as stated: the day command names the new directory day_prefix followed
\* by (highest + 1) zero-padded to two digits, highest being the largest day
\* number among the existing entries that match day_prefix and 0 when there
\* is none.
C11_Original ==
    DayRan => \A h \in 0..U8Max : IsHighest(h) => IsDayName(new_day_str, h + 1)

\* C11 amended: the same whenever highest is at most 254 (entries whose
\* remainder is no u8 count as day 0): highest 9 gives a name ending in "10",
\* no existing day gives a name ending in "01". With highest 255 the u8
\* addition overflows: no name is made (a panic) or the name ends in "00".
C11_NextDayName ==
    DayRan =>
        /\ \A h \in 0..U8Max :
              IsHighest(h) =>
                 IF h < U8Max
                 THEN IsDayName(new_day_str, h + 1)
                 ELSE new_day_str = "" \/ IsDayName(new_day_str, 0)
        /\ IsHighest(9) => new_day_str = day_format \o "10"
        /\ IsHighest(0) => new_day_str = day_format \o "01"

\* the day command ran with day 9 the highest existing day
C11_Witness ==
    /\ DayRan
    /\ entries = {"day-01", "day-09", "notes"}
    /\ new_day_str = "day-10"

====
